---- MODULE Spec2Model ----
(***************************************************************************)
(* Model of torch/csrc/jit/tensorexpr/llvm_jit.cpp (the PytorchLLVMJIT     *)
(* facade and its two PytorchLLVMJITImpl variants, LLVM >= 9 and LLVM 8)   *)
(* and of aten/src/ATen/ConjugateFallback.cpp (conjugateFallback).         *)
(*                                                                         *)
(* The two engine variants are run side by side on the same sequence of    *)
(* calls: `modern` is the LLVM >= 9 class, `legacy` the LLVM 8 class.      *)
(* A failed TORCH_INTERNAL_ASSERT ends the engine: status "fatal".         *)
(***************************************************************************)
EXTENDS Integers, Sequences, FiniteSets, TLC

(* ------------------------------ bounds -------------------------------- *)

\* most modules submitted to one engine
MaxModules == 2

\* most stack slots of one boxed operator call
MaxArgs == 3

(* ------------------------------ names --------------------------------- *)

DP == "DispatchParallel"

Names == {DP, "sinf", "foo"}

\* the intrinsic tables tried: empty, one entry, an entry listed twice, and
\* tables that list the mandatory entry themselves
Tables == {<<>>, <<"sinf">>, <<"sinf", "sinf">>, <<DP>>, <<"sinf", DP>>}

\* names the running process may export
ProcNames == {"sinf", "foo"}

\* names a module may define / reference
DefNames == {"foo", "sinf"}

RefNames == {"foo", "sinf"}

Range(s) == {s[j] : j \in 1..Len(s)}

\* an IR module as the engine sees it: the symbols it defines and the
\* external symbols it references (here one definition and at most one
\* reference)
Modules ==
  {m \in [defs : SUBSET DefNames, refs : SUBSET RefNames] :
     /\ m.defs \cap m.refs = {}
     /\ Cardinality(m.defs) = 1
     /\ Cardinality(m.refs) <= 1}

(* ----------------------------- addresses ------------------------------ *)

Addr(src, key, name) == [src |-> src, key |-> key, name |-> name]

\* a null JITSymbol / absent definition
Null == Addr("null", 0, "")

\* toAddress(ptr) of an intrinsic entry
IntrinsicAddr(n) == Addr("intrinsic", 0, n)

\* address of a symbol of the process image
ProcessAddr(n) == Addr("process", 0, n)

\* address of symbol n of the module added under VModuleKey k
ModuleAddr(k, n) == Addr("module", k, n)

EmptyJD == [n \in Names |-> Null]

\* outcome of one call on one engine
Res(st, sym, has) == [st |-> st, sym |-> sym, has |-> has]

Ok == Res("ok", Null, FALSE)

Fatal == Res("fatal", Null, FALSE)

\* the engine had already failed: the call is not made
Dead == Res("dead", Null, FALSE)

Min(S) == CHOOSE x \in S : \A y \in S : x <= y

Max(S) == CHOOSE x \in S : \A y \in S : x >= y

(* ------------------------- registerIntrinsics ------------------------- *)

\* the while (syms->symbol) loop: JD.define of each entry (a duplicate
\* definition is an error, assertSuccess fails), then intrinsics.insert
RECURSIVE RegisterLoop(_, _, _, _)
RegisterLoop(tab, j, JD, intr) ==
  IF j > Len(tab) THEN [ok |-> TRUE, JD |-> JD, intrinsics |-> intr]
  ELSE IF JD[tab[j]] # Null THEN [ok |-> FALSE, JD |-> JD, intrinsics |-> intr]
  ELSE RegisterLoop(tab, j + 1,
                    [JD EXCEPT ![tab[j]] = IntrinsicAddr(tab[j])],
                    intr \cup {tab[j]})

\* registerIntrinsics with a fault: the mandatory entry is also recorded in
\* the query set
registerIntrinsics_recordsDP(tab) ==
  LET r == RegisterLoop(tab, 1, EmptyJD, {})
  IN IF ~r.ok \/ r.JD[DP] # Null
     THEN [ok |-> FALSE, JD |-> r.JD, intrinsics |-> r.intrinsics]
     ELSE [ok |-> TRUE,
           JD |-> [r.JD EXCEPT ![DP] = IntrinsicAddr(DP)],
           intrinsics |-> r.intrinsics \cup {DP}]

registerIntrinsics(tab) ==
  LET r == RegisterLoop(tab, 1, EmptyJD, {})
  IN IF ~r.ok \/ r.JD[DP] # Null
     THEN [ok |-> FALSE, JD |-> r.JD, intrinsics |-> r.intrinsics]
     ELSE [ok |-> TRUE,
           JD |-> [r.JD EXCEPT ![DP] = IntrinsicAddr(DP)],
           intrinsics |-> r.intrinsics]

(* ------------------- PytorchLLVMJITImpl, LLVM >= 9 -------------------- *)

Unbuilt9 ==
  [status |-> "unbuilt", JD |-> EmptyJD, intrinsics |-> {}, mods |-> <<>>,
   emitted |-> {}, links |-> {}]

\* the constructor: LLJIT created, the process-symbol generator attached to
\* the main JITDylib, then registerIntrinsics
Construct9(tab) ==
  LET r == registerIntrinsics(tab)
  IN IF r.ok
     THEN [eng |-> [Unbuilt9 EXCEPT !.status = "ready", !.JD = r.JD,
                                    !.intrinsics = r.intrinsics],
           res |-> Ok]
     ELSE [eng |-> [Unbuilt9 EXCEPT !.status = "fatal"], res |-> Fatal]

\* LLJ->addIRModule: the module's symbols are defined in the main JITDylib
\* (a strong symbol already defined there is a DuplicateDefinition error);
\* compiling and linking wait for the first lookup
addModule9(eng, m) ==
  IF \E d \in m.defs : eng.JD[d] # Null
  THEN [eng |-> [eng EXCEPT !.status = "fatal"], res |-> Fatal]
  ELSE LET k == Len(eng.mods) + 1
       IN [eng |-> [eng EXCEPT
                      !.mods = Append(@, m),
                      !.JD = [n \in Names |->
                                IF n \in m.defs THEN ModuleAddr(k, n) ELSE @[n]]],
           res |-> Ok]

\* the modules a lookup has to materialize: K and, through their external
\* references, every module not yet emitted
RECURSIVE ToEmit9(_, _)
ToEmit9(eng, K) ==
  LET refs == UNION {eng.mods[k].refs : k \in K}
      more == {eng.JD[r].key : r \in {x \in refs : eng.JD[x].src = "module"}}
      next == K \cup (more \ eng.emitted)
  IN IF next = K THEN K ELSE ToEmit9(eng, next)

\* LLJ->lookup(Name) on the main JITDylib: a name the dylib defines is
\* taken from it (its module is compiled and linked first), a name it does
\* not define is asked of the process generator, which defines it in the
\* dylib; anything else is an error
lookup9(eng, n, proc) ==
  LET K    == IF eng.JD[n].src = "module" /\ eng.JD[n].key \notin eng.emitted
              THEN ToEmit9(eng, {eng.JD[n].key}) ELSE {}
      want == {n} \cup UNION {eng.mods[k].refs : k \in K}
      gen  == {x \in want : eng.JD[x] = Null /\ x \in proc}
      JD2  == [x \in Names |-> IF x \in gen THEN ProcessAddr(x) ELSE eng.JD[x]]
  IN IF \E x \in want : JD2[x] = Null
     THEN [eng |-> [eng EXCEPT !.status = "fatal"], res |-> Fatal]
     ELSE [eng |-> [eng EXCEPT
                      !.JD = JD2,
                      !.emitted = @ \cup K,
                      !.links = @ \cup UNION {{<<k, r, JD2[r]>> : r \in eng.mods[k].refs}
                                                 : k \in K}],
           res |-> Res("ok", JD2[n], FALSE)]

findSymbol9(eng, n, proc) == lookup9(eng, n, proc)

hasSymbol9(eng, n) == n \in eng.intrinsics

(* --------------------- PytorchLLVMJITImpl, LLVM 8 --------------------- *)

Unbuilt8 ==
  [status |-> "unbuilt", JD |-> EmptyJD, intrinsics |-> {}, mods |-> <<>>,
   live |-> {}, finalized |-> {}, links |-> {}]

\* the constructor: registerIntrinsics on the session's main JITDylib
Construct8(tab) ==
  LET r == registerIntrinsics(tab)
  IN IF r.ok
     THEN [eng |-> [Unbuilt8 EXCEPT !.status = "ready", !.JD = r.JD,
                                    !.intrinsics = r.intrinsics],
           res |-> Ok]
     ELSE [eng |-> [Unbuilt8 EXCEPT !.status = "fatal"], res |-> Fatal]

\* ES.allocateVModule() and CompileLayer.addModule(K, M): the object is
\* linked into the layer under the new key, whatever it defines
addModule8(eng, m) ==
  LET K == Len(eng.mods) + 1
  IN [eng |-> [eng EXCEPT !.mods = Append(@, m), !.live = @ \cup {K}],
      res |-> Ok]

\* CompileLayer.findSymbol with a fault: the linked objects are searched
\* from the newest key down
CompileLayer_findSymbol_newest(eng, n) ==
  LET ks == {k \in eng.live : n \in eng.mods[k].defs}
  IN IF ks = {} THEN Null ELSE ModuleAddr(Max(ks), n)

\* CompileLayer.findSymbol: the linked objects are searched in key order
CompileLayer_findSymbol(eng, n) ==
  LET ks == {k \in eng.live : n \in eng.mods[k].defs}
  IN IF ks = {} THEN Null ELSE ModuleAddr(Min(ks), n)

\* findSymbol: only the compile layer is searched; the JITSymbol is
\* returned as found, null included
findSymbol8(eng, n) ==
  [eng |-> eng, res |-> Res("ok", CompileLayer_findSymbol(eng, n), FALSE)]

hasSymbol8(eng, n) == n \in eng.intrinsics

\* the lambda given to createLegacyLookupResolver: the compile layer, then
\* the process image, then the main JITDylib under assertSuccess
Resolver8(eng, n, proc) ==
  LET s == CompileLayer_findSymbol(eng, n)
  IN IF s # Null THEN Res("ok", s, FALSE)
     ELSE IF n \in proc THEN Res("ok", ProcessAddr(n), FALSE)
     ELSE IF eng.JD[n] # Null THEN Res("ok", eng.JD[n], FALSE)
     ELSE Fatal

\* the objects the address of a symbol of K finalizes: K and, through the
\* resolver, every object not yet finalized
RECURSIVE ToFinalize8(_, _)
ToFinalize8(eng, K) ==
  LET refs == UNION {eng.mods[k].refs : k \in K}
      more == {CompileLayer_findSymbol(eng, r).key :
                 r \in {x \in refs : CompileLayer_findSymbol(eng, x) # Null}}
      next == K \cup (more \ eng.finalized)
  IN IF next = K THEN K ELSE ToFinalize8(eng, next)

\* getSymbolAddress: assertSuccess(findSymbol(Name).getAddress()); a null
\* symbol has address 0, any other finalizes its object, which resolves the
\* object's external references through the resolver
getSymbolAddress8(eng, n, proc) ==
  LET s == CompileLayer_findSymbol(eng, n)
      K == IF s # Null /\ s.key \notin eng.finalized
           THEN ToFinalize8(eng, {s.key}) ELSE {}
      refs == UNION {eng.mods[k].refs : k \in K}
  IN IF \E r \in refs : Resolver8(eng, r, proc).st = "fatal"
     THEN [eng |-> [eng EXCEPT !.status = "fatal"], res |-> Fatal]
     ELSE [eng |-> [eng EXCEPT
                      !.finalized = @ \cup K,
                      !.links = @ \cup UNION {{<<k, r, Resolver8(eng, r, proc).sym>>
                                                  : r \in eng.mods[k].refs} : k \in K}],
           res |-> Res("ok", s, FALSE)]

\* removeModule: CompileLayer.removeModule(K) erases the object linked
\* under K
removeModule8(eng, K) ==
  [eng |-> [eng EXCEPT !.live = @ \ {K}], res |-> Ok]

(* ------------------------------- state -------------------------------- *)

VARIABLES
  table,          \* the entries getSymbols() enumerates, sentinel excluded
  process,        \* the symbols the running process exports
  modern,         \* the LLVM >= 9 PytorchLLVMJITImpl behind the facade
  legacy,         \* the LLVM 8 PytorchLLVMJITImpl behind the facade
  last,           \* the last call and its outcome on each variant
  arguments,      \* op.schema().arguments(): the alias_info of each argument
  stack,          \* the argument slots of the boxed call
  is_conj,        \* per tensor, its conjugate bit
  nconj,          \* per tensor, how often conj_physical_ was applied to it
  is_write,       \* the optional<bool> of the first loop
  mutable_inputs, \* the vector of the same name
  i,              \* the loop index
  pc,             \* the position inside conjugateFallback
  redispatched,   \* how often op.redispatchBoxed was called
  conj0           \* the conjugate bits on entry

jitVars == <<table, process, modern, legacy, last>>

conjVars ==
  <<arguments, stack, is_conj, nconj, is_write, mutable_inputs, i, pc,
    redispatched, conj0>>

vars == <<jitVars, conjVars>>

Tensors == {1, 2}

\* no module: the argument of a call that takes none
NoModule == [defs |-> {}, refs |-> {}]

NoCall ==
  [op |-> "none", name |-> "", mod |-> NoModule, key |-> 0, r9 |-> Dead, r8 |-> Dead]

\* a call of the facade (or of the implementation), its arguments and its
\* outcome on the LLVM >= 9 and on the LLVM 8 engine
Call(op, name, m, key, r9, r8) ==
  [op |-> op, name |-> name, mod |-> m, key |-> key, r9 |-> r9, r8 |-> r8]

JitIdle ==
  /\ table = <<>>
  /\ process = {}
  /\ modern = Unbuilt9
  /\ legacy = Unbuilt8
  /\ last = NoCall

ConjIdle ==
  /\ arguments = <<>>
  /\ stack = <<>>
  /\ is_conj = [t \in Tensors |-> FALSE]
  /\ nconj = [t \in Tensors |-> 0]
  /\ is_write = "unset"
  /\ mutable_inputs = <<>>
  /\ i = 0
  /\ pc = "idle"
  /\ redispatched = 0
  /\ conj0 = [t \in Tensors |-> FALSE]

(* --------------------------- PytorchLLVMJIT --------------------------- *)

\* before PytorchLLVMJIT(): a table, a process image, no engine yet
Init ==
  /\ table \in Tables
  /\ process \in SUBSET ProcNames
  /\ modern = Unbuilt9
  /\ legacy = Unbuilt8
  /\ last = NoCall
  /\ ConjIdle

\* PytorchLLVMJIT::PytorchLLVMJIT(): make_unique<PytorchLLVMJITImpl>()
Construct ==
  /\ modern.status = "unbuilt"
  /\ legacy.status = "unbuilt"
  /\ modern' = Construct9(table).eng
  /\ legacy' = Construct8(table).eng
  /\ last' = Call("Construct", "", NoModule, 0, Construct9(table).res, Construct8(table).res)
  /\ UNCHANGED <<table, process, conjVars>>

Ready(eng) == eng.status = "ready"

\* PytorchLLVMJIT::addModule forwards to the implementation
AddModule(m) ==
  /\ Ready(modern) \/ Ready(legacy)
  /\ Ready(modern) => Len(modern.mods) < MaxModules
  /\ Ready(legacy) => Len(legacy.mods) < MaxModules
  /\ LET a9 == IF Ready(modern) THEN addModule9(modern, m)
               ELSE [eng |-> modern, res |-> Dead]
         a8 == IF Ready(legacy) THEN addModule8(legacy, m)
               ELSE [eng |-> legacy, res |-> Dead]
     IN /\ modern' = a9.eng
        /\ legacy' = a8.eng
        /\ last' = Call("AddModule", "", m, 0, a9.res, a8.res)
  /\ UNCHANGED <<table, process, conjVars>>

\* PytorchLLVMJIT::findSymbol forwards to the implementation
FindSymbol(n) ==
  /\ Ready(modern) \/ Ready(legacy)
  /\ LET a9 == IF Ready(modern) THEN findSymbol9(modern, n, process)
               ELSE [eng |-> modern, res |-> Dead]
         a8 == IF Ready(legacy) THEN findSymbol8(legacy, n)
               ELSE [eng |-> legacy, res |-> Dead]
     IN /\ modern' = a9.eng
        /\ legacy' = a8.eng
        /\ last' = Call("FindSymbol", n, NoModule, 0, a9.res, a8.res)
  /\ UNCHANGED <<table, process, conjVars>>

\* PytorchLLVMJIT::hasSymbol forwards to the implementation
HasSymbol(n) ==
  /\ Ready(modern) \/ Ready(legacy)
  /\ last' = Call("HasSymbol", n, NoModule, 0,
                  IF Ready(modern) THEN Res("ok", Null, hasSymbol9(modern, n)) ELSE Dead,
                  IF Ready(legacy) THEN Res("ok", Null, hasSymbol8(legacy, n)) ELSE Dead)
  /\ UNCHANGED <<table, process, modern, legacy, conjVars>>

\* PytorchLLVMJITImpl::getSymbolAddress, LLVM 8 only
GetSymbolAddress(n) ==
  /\ Ready(legacy)
  /\ LET a8 == getSymbolAddress8(legacy, n, process)
     IN /\ legacy' = a8.eng
        /\ last' = Call("GetSymbolAddress", n, NoModule, 0, Dead, a8.res)
  /\ UNCHANGED <<table, process, modern, conjVars>>

\* PytorchLLVMJITImpl::removeModule, LLVM 8 only. A key with no object
\* linked under it trips the layer's assert in a debug build of LLVM and is
\* ignored in a release build.
RemoveModule(K) ==
  /\ Ready(legacy)
  /\ \/ /\ K \in legacy.live
        /\ legacy' = removeModule8(legacy, K).eng
        /\ last' = Call("RemoveModule", "", NoModule, K, Dead, Ok)
     \/ /\ K \notin legacy.live
        /\ \/ /\ legacy' = removeModule8(legacy, K).eng
              /\ last' = Call("RemoveModule", "", NoModule, K, Dead, Ok)
           \/ /\ legacy' = [legacy EXCEPT !.status = "fatal"]
              /\ last' = Call("RemoveModule", "", NoModule, K, Dead, Fatal)
  /\ UNCHANGED <<table, process, modern, conjVars>>

Next ==
  \/ Construct
  \/ \E m \in Modules : AddModule(m)
  \/ \E n \in Names : FindSymbol(n)
  \/ \E n \in Names : HasSymbol(n)
  \/ \E n \in Names : GetSymbolAddress(n)
  \/ \E K \in 1..MaxModules : RemoveModule(K)

Spec == Init /\ [][Next]_vars

(* -------------------------- conjugateFallback ------------------------- *)

\* alias_info of a schema argument: none, or present with isWrite() false
\* ("read") or true ("write")
Aliases == {"none", "read", "write"}

Slot(kind, id) == [kind |-> kind, id |-> id]

\* a stack slot: a tensor, or an IValue that is no tensor
Slots == {Slot("tensor", t) : t \in Tensors} \cup {Slot("other", 0)}

\* native::resolve_conj(tensor): a new tensor holding the conjugated values,
\* its conjugate bit clear
resolve_conj(t) == Slot("resolved", t)

\* ivalue.isTensor()
isTensor(slot) == slot.kind # "other"

\* impl->is_conj() of the tensor in a slot (a resolved copy has no bit)
slot_is_conj(bits, slot) == slot.kind = "tensor" /\ bits[slot.id]

\* native::conj_physical_(tensor)
conj_physical_(n, t) == [n EXCEPT ![t] = @ + 1]

\* tensor.set_conj(b)
set_conj(bits, t, b) == [bits EXCEPT ![t] = b]

\* entry to conjugateFallback(op, dispatch_keys, stack)
InitConj ==
  /\ \E len \in 0..MaxArgs :
       /\ arguments \in [1..len -> Aliases]
       /\ stack \in [1..len -> Slots]
  /\ is_conj \in [Tensors -> BOOLEAN]
  /\ conj0 = is_conj
  /\ nconj = [t \in Tensors |-> 0]
  /\ is_write = "unset"
  /\ mutable_inputs = <<>>
  /\ i = 1
  /\ pc = "check"
  /\ redispatched = 0
  /\ JitIdle

\* one turn of the first loop: is_write is set by the first argument with
\* alias_info, and TORCH_CHECK throws on one that disagrees with it
CheckArg ==
  /\ pc = "check"
  /\ i <= Len(arguments)
  /\ LET w == IF arguments[i] = "write" THEN "true" ELSE "false"
     IN IF arguments[i] = "none"
        THEN /\ i' = i + 1
             /\ UNCHANGED <<is_write, pc>>
        ELSE IF is_write = "unset"
        THEN /\ is_write' = w
             /\ i' = i + 1
             /\ UNCHANGED pc
        ELSE IF is_write = w
        THEN /\ i' = i + 1
             /\ UNCHANGED <<is_write, pc>>
        ELSE /\ pc' = "error"
             /\ UNCHANGED <<is_write, i>>
  /\ UNCHANGED <<arguments, stack, is_conj, nconj, mutable_inputs, redispatched,
                 conj0, jitVars>>

\* after the first loop: a view operator is redispatched at once (and the
\* redispatch returns or throws), any other goes on to the second loop
CheckDone ==
  /\ pc = "check"
  /\ i > Len(arguments)
  /\ IF is_write = "false"
     THEN /\ redispatched' = redispatched + 1
          /\ pc' \in {"done", "thrown"}
          /\ UNCHANGED i
     ELSE /\ pc' = "prepare"
          /\ i' = 1
          /\ UNCHANGED redispatched
  /\ UNCHANGED <<arguments, stack, is_conj, nconj, is_write, mutable_inputs,
                 conj0, jitVars>>

\* needs_conj with a fault: the conjugate bit of the slot's tensor is not
\* looked at
needs_conj_always(bits, slot) == isTensor(slot)

\* the two continue tests of the second loop: the slot holds a tensor and
\* that tensor's conjugate bit is set
needs_conj(bits, slot) == isTensor(slot) /\ slot_is_conj(bits, slot)

\* one turn of the second loop
PrepareArg ==
  /\ pc = "prepare"
  /\ i <= Len(arguments)
  /\ LET slot == stack[i]
         mut_arg == arguments[i] # "none"
     IN IF ~needs_conj(is_conj, slot)
        THEN UNCHANGED <<stack, is_conj, nconj, mutable_inputs>>
        ELSE IF mut_arg
        THEN /\ nconj' = conj_physical_(nconj, slot.id)
             /\ is_conj' = set_conj(is_conj, slot.id, FALSE)
             /\ mutable_inputs' = Append(mutable_inputs, slot.id)
             /\ UNCHANGED stack
        ELSE /\ stack' = [stack EXCEPT ![i] = resolve_conj(slot.id)]
             /\ UNCHANGED <<is_conj, nconj, mutable_inputs>>
  /\ i' = i + 1
  /\ UNCHANGED <<arguments, is_write, pc, redispatched, conj0, jitVars>>

\* the second loop is over
PrepareDone ==
  /\ pc = "prepare"
  /\ i > Len(arguments)
  /\ pc' = "redispatch"
  /\ UNCHANGED <<arguments, stack, is_conj, nconj, is_write, mutable_inputs, i,
                 redispatched, conj0, jitVars>>

\* op.redispatchBoxed(...): returns, or throws past the third loop
Redispatch ==
  /\ pc = "redispatch"
  /\ redispatched' = redispatched + 1
  /\ \/ pc' = "restore" /\ i' = 1
     \/ pc' = "thrown" /\ UNCHANGED i
  /\ UNCHANGED <<arguments, stack, is_conj, nconj, is_write, mutable_inputs,
                 conj0, jitVars>>

\* one turn of the third loop
RestoreInput ==
  /\ pc = "restore"
  /\ i <= Len(mutable_inputs)
  /\ nconj' = conj_physical_(nconj, mutable_inputs[i])
  /\ is_conj' = set_conj(is_conj, mutable_inputs[i], TRUE)
  /\ i' = i + 1
  /\ UNCHANGED <<arguments, stack, is_write, mutable_inputs, pc, redispatched,
                 conj0, jitVars>>

\* the third loop is over: return
Return ==
  /\ pc = "restore"
  /\ i > Len(mutable_inputs)
  /\ pc' = "done"
  /\ UNCHANGED <<arguments, stack, is_conj, nconj, is_write, mutable_inputs, i,
                 redispatched, conj0, jitVars>>

NextConj ==
  \/ CheckArg
  \/ CheckDone
  \/ PrepareArg
  \/ PrepareDone
  \/ Redispatch
  \/ RestoreInput
  \/ Return

SpecConj == InitConj /\ [][NextConj]_vars

(* ------------------------------ claims -------------------------------- *)

\* the names registerIntrinsics defines: the table's and the mandatory one
Registered == Range(table) \cup {DP}

\* the modules an engine holds that define n
Defining9(n) == {k \in DOMAIN modern.mods : n \in modern.mods[k].defs}

Defining8(n) == {k \in legacy.live : n \in legacy.mods[k].defs}

\* a module defining n was submitted to one of the engines
Submitted(n) ==
  \/ \E k \in DOMAIN modern.mods : n \in modern.mods[k].defs
  \/ \E k \in DOMAIN legacy.mods : n \in legacy.mods[k].defs

\* C1 as stated: HasSymbol is true for every table name and for
\* DispatchParallel, and false for a name never registered and never
\* defined by a module.
C1_HasSymbol_AsStated ==
  \A r \in {last.r9, last.r8} :
    (last.op = "HasSymbol" /\ r.st = "ok") =>
      /\ last.name \in Registered => r.has
      /\ (last.name \notin Registered /\ ~Submitted(last.name)) => ~r.has

\* C1 amended: HasSymbol is true for every name the table enumerates, and
\* false for DispatchParallel and for a name never registered and never
\* defined by a module.
C1_HasSymbol ==
  \A r \in {last.r9, last.r8} :
    (last.op = "HasSymbol" /\ r.st = "ok") =>
      /\ last.name \in Range(table) => r.has
      /\ last.name = DP => ~r.has
      /\ (last.name \notin Registered /\ ~Submitted(last.name)) => ~r.has

C1_Witness ==
  /\ last.op = "HasSymbol"
  /\ last.name = DP
  /\ table # <<>>
  /\ Len(modern.mods) > 0
  /\ last.r9.st = "ok" /\ ~last.r9.has
  /\ last.r8.st = "ok" /\ ~last.r8.has

\* C2: FindSymbol of a name no source defines (no module of the engine,
\* no intrinsic, no process symbol) is a fatal failure in either variant.
C2_UnknownIsFatal ==
  last.op = "FindSymbol" =>
    LET nowhere == last.name \notin Registered /\ last.name \notin process
    IN /\ (last.r9.st # "dead" /\ nowhere /\ Defining9(last.name) = {})
            => last.r9.st = "fatal"
       /\ (last.r8.st # "dead" /\ nowhere /\ Defining8(last.name) = {})
            => last.r8.st = "fatal"

\* C3: AddModule of a module defining a registered intrinsic's name
\* succeeds, and FindSymbol of such a name gives the module's definition.
C3_ModuleOverIntrinsic ==
  \A r \in {last.r9, last.r8} :
    /\ (last.op = "AddModule" /\ r.st # "dead" /\ last.mod.defs \cap Registered # {})
         => r.st = "ok"
    /\ (last.op = "FindSymbol" /\ r.st # "dead" /\ last.name \in Registered
        /\ Submitted(last.name))
         => (r.st = "ok" /\ r.sym.src = "module")

\* C4: FindSymbol("DispatchParallel") succeeds with a non-null address in
\* every state of a constructed engine.
C4_DispatchParallelFound ==
  \A r \in {last.r9, last.r8} :
    (last.op = "FindSymbol" /\ last.name = DP /\ r.st # "dead")
      => (r.st = "ok" /\ r.sym # Null)

\* C5: when exactly one module of the engine defines a name, FindSymbol of
\* that name returns that module's definition.
C5_FindsModuleSymbol ==
  last.op = "FindSymbol" =>
    /\ (last.r9.st # "dead" /\ Cardinality(Defining9(last.name)) = 1)
         => \E k \in Defining9(last.name) :
              last.r9 = Res("ok", ModuleAddr(k, last.name), FALSE)
    /\ (last.r8.st # "dead" /\ Cardinality(Defining8(last.name)) = 1)
         => \E k \in Defining8(last.name) :
              last.r8 = Res("ok", ModuleAddr(k, last.name), FALSE)

\* the address an engine is committed to for a name: what its symbol
\* table (LLVM >= 9: the main JITDylib; LLVM 8: the compile layer) holds
Held9(n) == modern.JD[n]

Held8(n) == CompileLayer_findSymbol(legacy, n)

\* a FindSymbol that resolved a name leaves the engine holding the address
\* it returned
C6_Returned ==
  last.op = "FindSymbol" =>
    /\ (last.r9.st = "ok" /\ last.r9.sym # Null) => Held9(last.name) = last.r9.sym
    /\ (last.r8.st = "ok" /\ last.r8.sym # Null) => Held8(last.name) = last.r8.sym

\* an address held for a name is still held after any call, unless the
\* call removes the module the address belongs to, and a FindSymbol of the
\* name that resolves returns it
C6_Kept ==
  \A n \in Names :
    /\ (Held9(n) # Null /\ Ready(modern)') =>
         /\ Held9(n)' = Held9(n)
         /\ (last'.op = "FindSymbol" /\ last'.name = n) => last'.r9.sym = Held9(n)
    /\ (Held8(n) # Null /\ Ready(legacy)' /\ Held8(n).key \in legacy'.live) =>
         /\ Held8(n)' = Held8(n)
         /\ (last'.op = "FindSymbol" /\ last'.name = n) => last'.r8.sym = Held8(n)

\* C6: FindSymbol is deterministic: the address a FindSymbol returned for a
\* name is the one every later FindSymbol of that name returns, whatever
\* was called in between (AddModule included), as long as the module
\* holding it is not removed.
C6_Deterministic == []C6_Returned /\ [][C6_Kept]_vars

\* two live modules define foo, the first already finalized, and
\* FindSymbol("foo") gives the first module's definition
C6_Witness ==
  /\ last.op = "FindSymbol"
  /\ last.name = "foo"
  /\ legacy.live = {1, 2}
  /\ Defining8("foo") = {1, 2}
  /\ last.r8.sym = ModuleAddr(1, "foo")
  /\ 1 \in legacy.finalized

\* C7: every facade call has the same outcome on both variants.
C7_Equivalent ==
  last.op \in {"Construct", "AddModule", "FindSymbol", "HasSymbol"}
    => last.r9 = last.r8

\* C8: an external reference of a module to a name that no module defines
\* and that is both a registered intrinsic and a process symbol is linked
\* to the intrinsic's address, in either variant.
C8_IntrinsicBeforeProcess ==
  /\ \A l \in modern.links :
       (l[2] \in Registered /\ l[2] \in process /\ Defining9(l[2]) = {})
         => l[3] = IntrinsicAddr(l[2])
  /\ \A l \in legacy.links :
       (l[2] \in Registered /\ l[2] \in process
        /\ \A k \in DOMAIN legacy.mods : l[2] \notin legacy.mods[k].defs)
         => l[3] = IntrinsicAddr(l[2])

\* C9: in the LLVM 8 variant, once the only module defining a name has been
\* removed, FindSymbol of that name fails.
C9_RemovedIsGone ==
  (/\ last.op = "FindSymbol"
   /\ last.r8.st # "dead"
   /\ Defining8(last.name) = {}
   /\ \E k \in DOMAIN legacy.mods \ legacy.live : last.name \in legacy.mods[k].defs)
    => last.r8.st = "fatal"

\* the tensors in the mutable argument slots
MutableTensors ==
  {stack[j].id : j \in {x \in 1..Len(arguments) :
                          arguments[x] = "write" /\ stack[x].kind = "tensor"}}

\* C10: for an operator with mutable arguments, each mutable tensor whose
\* conjugate bit was set on entry has been conjugated once and has its bit
\* clear when the one redispatch is made, and on return has been conjugated
\* twice; on return every tensor has the bit it had on entry and has been
\* conjugated an even number of times.
C10_Bracket ==
  /\ (pc = "redispatch" /\ is_write = "true") =>
       /\ redispatched = 0
       /\ \A t \in MutableTensors : conj0[t] => (~is_conj[t] /\ nconj[t] = 1)
  /\ (pc = "done" /\ is_write = "true") =>
       /\ redispatched = 1
       /\ \A t \in MutableTensors : conj0[t] => nconj[t] = 2
       /\ \A t \in Tensors : is_conj[t] = conj0[t] /\ nconj[t] % 2 = 0

\* the same conjugated tensor sat in two mutable slots
C10_Witness ==
  /\ pc = "done"
  /\ is_write = "true"
  /\ \E j, k \in 1..Len(arguments) :
       /\ j < k
       /\ arguments[j] = "write" /\ arguments[k] = "write"
       /\ stack[j] = stack[k]
       /\ stack[j].kind = "tensor"
       /\ conj0[stack[j].id]
       /\ nconj[stack[j].id] = 2
       /\ is_conj[stack[j].id]

====
